---- MODULE Spec2Model ----
(***************************************************************************)
(* Model of ssoor/grpc-tools.  Package internal/tlsmux: the peeking        *)
(* connection wrapper (peek_conn.go), the classifying listener             *)
(* (mux_listener.go, middleware definitions) and the TLS mux (tls_mux.go). *)
(* Package grpc-proxy: the HAR-recording round-tripper (http_transport.go, *)
(* the HAR log) and New and Start of the server (proxy.go).                *)
(*                                                                         *)
(* Bytes are naturals 0..255.  A Go slice is a record                      *)
(*   [isnil, arr, len]                                                     *)
(* where arr is the backing array seen from the slice's first element (so  *)
(* Len(arr) is the capacity) and len the slice's length.                   *)
(***************************************************************************)
EXTENDS Naturals, Integers, Sequences, FiniteSets, TLC

----------------------------------------------------------------------------
(* Bounds of the model *)

\* Largest buffer a caller of Peek / Read passes in PeekSpec.
MaxBuf == 4
\* Number of Peek / Read calls made on the wrapper in PeekSpec.
MaxCalls == 4
\* Number of connections the clients open.
MaxConns == 2
\* Capacity of the four channels of New (128 in the source, scaled down).
ChanCap == 2
\* Number of Close calls made on the two listeners.
MaxCloseCalls == 3
\* Number of transient errors the underlying listener's Accept returns.
MaxTempErrs == 1
\* Number of RoundTrip calls made on the HTTPTransport in HarSpec.
MaxReqs == 2
\* Capacity the HAR log starts with (1000 in the source, scaled down).
startingEntrySize == 1
\* Largest number of middleware a listener of ChainSpec is built with.
MaxMiddles == 2
\* Number of times the underlying listener of ChainSpec returns from Accept.
MaxEvents == 2
\* Size of the buffer the gzip and flate readers read through (4096 in the
\* Go library, scaled down).
BufSize == 2
\* Calls of HarLog.addEntry in a row, and entries passed to one call.
MaxAdds == 3
MaxK == 2

----------------------------------------------------------------------------
(* Go slices *)

Min(a, b) == IF a < b THEN a ELSE b

Zeros(n) == [i \in 1..n |-> 0]

NilSlice == [isnil |-> TRUE, arr |-> <<>>, len |-> 0]

\* make([]byte, l, c)
Make(l, c) == [isnil |-> FALSE, arr |-> Zeros(c), len |-> l]

Cap(s) == Len(s.arr)

\* s[a:b]
Slice(s, a, b) ==
    [isnil |-> FALSE, arr |-> SubSeq(s.arr, a + 1, Len(s.arr)), len |-> b - a]

\* copy(dst, src): min(len(dst), len(src)) elements are copied
Copy(dst, src) ==
    LET n == Min(dst.len, src.len)
    IN  [dst EXCEPT !.arr = [i \in 1..Len(dst.arr) |->
                                IF i <= n THEN src.arr[i] ELSE dst.arr[i]]]

\* the elements of a slice, s[0:len(s)]
Contents(s) == SubSeq(s.arr, 1, s.len)

\* write the bytes data into the backing array of s from index off (0-based);
\* this is what a Read into s[off:...] does to s
WriteAt(s, off, data) ==
    [s EXCEPT !.arr = [i \in 1..Len(s.arr) |->
                          IF i > off /\ i <= off + Len(data)
                          THEN data[i - off] ELSE s.arr[i]]]

----------------------------------------------------------------------------
(* The underlying net.Conn: the bytes the peer has sent and that have not  *)
(* been read yet, and whether the peer has closed after them.              *)

NoErr == "nil"
EOF == "EOF"

\* Conn.Read on a buffer of length l can return now
CanRead(c, l) == l = 0 \/ c.buf # <<>> \/ c.eof

\* the byte counts one Conn.Read on a buffer of length l may return
ReadChoices(c, l) ==
    IF l = 0 \/ c.buf = <<>> THEN {0} ELSE 1..Min(l, Len(c.buf))

\* Conn.Read into a buffer of length l, returning k bytes
ConnRead(c, l, k) ==
    [n    |-> k,
     data |-> SubSeq(c.buf, 1, k),
     err  |-> IF l > 0 /\ c.buf = <<>> /\ c.eof THEN EOF ELSE NoErr,
     conn |-> [c EXCEPT !.buf = SubSeq(c.buf, k + 1, Len(c.buf))]]

----------------------------------------------------------------------------
(* peekConn *)

NewPeekConn(c) == [Conn |-> c, peeked |-> NilSlice]

\* the buffer Peek works on after the capacity check of lines 33-40
PeekGrow(peeked, size) ==
    IF Cap(peeked) < size
    THEN LET peek == Make(0, size)
         IN  IF ~peeked.isnil THEN Copy(peek, peeked) ELSE peek
    ELSE peeked

\* Peek reads from the underlying connection
PeekReads(p, b) == PeekGrow(p.peeked, Cap(b)).len < Cap(b)

\* Peek(b) can return now
PeekEnabled(p, b) ==
    PeekReads(p, b) =>
        CanRead(p.Conn, Cap(b) - PeekGrow(p.peeked, Cap(b)).len)

\* the byte counts the Conn.Read inside Peek(b) may return
PeekChoices(p, b) ==
    IF PeekReads(p, b)
    THEN ReadChoices(p.Conn, Cap(b) - PeekGrow(p.peeked, Cap(b)).len)
    ELSE {0}

\* Peek(b), the underlying Read (if any) returning k bytes
Peek(p, b, k) ==
    LET size == Cap(b)
        pk1  == PeekGrow(p.peeked, size)
        rd   == pk1.len < size
        r    == ConnRead(p.Conn, size - pk1.len, k)
        \* the count returned by Conn.Read is dropped: len(p.peeked) stays
        pk2  == IF rd THEN WriteAt(pk1, pk1.len, r.data) ELSE pk1
    IN  [p   |-> [Conn |-> IF rd THEN r.conn ELSE p.Conn, peeked |-> pk2],
         b   |-> Copy(b, pk2),
         n   |-> pk2.len,
         err |-> IF rd THEN r.err ELSE NoErr]

\* the length of the buffer Read passes to Conn.Read
ReadLen(p, l) ==
    IF p.peeked.isnil THEN l ELSE l - Min(p.peeked.len, l)

ReadEnabled(p, l) == CanRead(p.Conn, ReadLen(p, l))

ReadChoicesOf(p, l) == ReadChoices(p.Conn, ReadLen(p, l))

\* Read(b) with len(b) = l, the underlying Read returning k bytes
Read(p, l, k) ==
    IF p.peeked.isnil
    THEN LET r == ConnRead(p.Conn, l, k)
         IN  [p   |-> [p EXCEPT !.Conn = r.conn],
              out |-> r.data, n |-> r.n, err |-> r.err]
    ELSE LET peek == IF p.peeked.len > l
                     THEN Slice(p.peeked, 0, l) ELSE p.peeked
             rest == IF p.peeked.len > l
                     THEN Slice(p.peeked, l, p.peeked.len) ELSE NilSlice
             size == peek.len
             r    == ConnRead(p.Conn, l - size, k)
         IN  [p   |-> [Conn |-> r.conn, peeked |-> rest],
              out |-> Contents(peek) \o r.data,
              n   |-> r.n + size,
              err |-> r.err]

----------------------------------------------------------------------------
(* Patterns of the classifying middleware *)

HasPrefix(d, t) == Len(d) >= Len(t) /\ SubSeq(d, 1, Len(t)) = t

Contains(d, t) ==
    \E i \in 1..Len(d) : i + Len(t) - 1 <= Len(d) /\ SubSeq(d, i, i + Len(t) - 1) = t

SP == 32
CONNECT == <<67, 79, 78, 78, 69, 67, 84>>
DELETE == <<68, 69, 76, 69, 84, 69>>
GET == <<71, 69, 84>>
HEAD == <<72, 69, 65, 68>>
OPTIONS == <<79, 80, 84, 73, 79, 78, 83>>
PATCH == <<80, 65, 84, 67, 72>>
POST == <<80, 79, 83, 84>>
PUT == <<80, 85, 84>>
TRACE == <<84, 82, 65, 67, 69>>

\* regexp `^\x16\x03[\x00-\x04]`
TLSPattern(d) == Len(d) >= 3 /\ d[1] = 22 /\ d[2] = 3 /\ d[3] \in 0..4

\* regexp `^(CONNECT)|(DELETE)|(GET)|(HEAD)|(OPTIONS)|(PATCH)|(POST)|(PUT)|(TRACE) `:
\* alternation binds weakest, so ^ belongs to the first alternative only and
\* the space to the last one only
HTTPPattern(d) ==
    \/ HasPrefix(d, CONNECT)
    \/ Contains(d, DELETE)
    \/ Contains(d, GET)
    \/ Contains(d, HEAD)
    \/ Contains(d, OPTIONS)
    \/ Contains(d, PATCH)
    \/ Contains(d, POST)
    \/ Contains(d, PUT)
    \/ Contains(d, TRACE \o <<SP>>)

\* the middleware installed by New, in order: 1 TLS, 2 HTTP, 3 fallback
TLSSizes == <<3>>
HTTPSizes == <<4, 5, 6, 7, 8>>
PeekSizes(mw) == IF mw = 1 THEN TLSSizes ELSE HTTPSizes
PatternMatch(mw, d) == IF mw = 1 THEN TLSPattern(d) ELSE HTTPPattern(d)
\* the channel the middle of pattern middleware mw sends the connection to
MiddleChan(mw) == IF mw = 1 THEN "tls" ELSE "plain"
NumMiddles == 3

\* data := make([]byte, 8)
DataLen == 8
----------------------------------------------------------------------------
(* State *)

VARIABLES
    conns,       \* the connections opened so far, by id (1..Len(conns))
    backlog,     \* ids the underlying listener has not returned from Accept yet
    loop,        \* the accept goroutine of New (tls_mux.go 105-122)
    chans,       \* nonTLSConns, tlsConns, nonTLSErrs, tlsErrs
    got,         \* what the Accept calls on each tlsMuxListener returned
    once,        \* the sync.Once values (closer is number 1), and the Close
                 \* calls made so far
    lis,         \* the underlying listener
    pk,          \* PeekSpec: a peekConn exercised on its own
    har,         \* HarSpec: an HTTPTransport and the RoundTrip calls on it
    chain,       \* ChainSpec: a listener of NewListener and its Accept calls
    st           \* StartSpec: a server and its Start call

vars == <<conns, backlog, loop, chans, got, once, lis, pk, har, chain, st>>
muxVars == <<conns, backlog, loop, chans, got, once, lis>>
extVars == <<har, chain, st>>

Listeners == {"plain", "tls"}

\* the streams a client sends after connecting
TLSHello == <<22, 3, 1>>
HTTPGet == <<71, 69, 84, 32>>
Opaque == <<1, 2, 3>>
Silent == <<>>

\* the methods a raw connection may have beyond net.Conn
Plain == {}
Proxied == {"OriginalDestination", "File"}

\* the connections clients open: the bytes sent, whether the client closes
\* its side after them, the methods of the raw connection and what
\* OriginalDestination reports as was-tls
Arrivals ==
    {[stream |-> TLSHello, eof |-> TRUE,  methods |-> Plain,   otls |-> FALSE],
     [stream |-> HTTPGet,  eof |-> TRUE,  methods |-> Plain,   otls |-> FALSE],
     [stream |-> Opaque,   eof |-> TRUE,  methods |-> Proxied, otls |-> FALSE],
     [stream |-> Opaque,   eof |-> TRUE,  methods |-> Plain,   otls |-> FALSE],
     [stream |-> TLSHello, eof |-> TRUE,  methods |-> Proxied, otls |-> TRUE],
     [stream |-> Silent,   eof |-> FALSE, methods |-> Plain,   otls |-> FALSE]}

\* what the peer of a connection intended it to be
IsTLS(stream) == Len(stream) >= 3 /\ stream[1] = 22 /\ stream[2] = 3 /\ stream[3] \in 0..4

Methods == {CONNECT, DELETE, GET, HEAD, OPTIONS, PATCH, POST, PUT, TRACE}

IsHTTP(stream) == \E m \in Methods : HasPrefix(stream, m \o <<SP>>)

----------------------------------------------------------------------------
(* Connections *)

\* a connection as the underlying listener returns it
RawConn(a) ==
    [p       |-> [Conn |-> [buf |-> a.stream, eof |-> a.eof], peeked |-> NilSlice],
     orig    |-> a.stream,
     raw     |-> a.methods,
     otls    |-> a.otls,
     wrap    |-> 0,          \* 0 raw, 1 *peekConn, 2 *patternConn
     closed  |-> FALSE,      \* Close was called on it
     dialed  |-> "no",       \* the dial made to its original destination
     fwd     |-> FALSE,      \* forwardConnection ran on it
     sent    |-> <<>>,       \* the channels it was sent to, in order
     h       |-> "none",     \* the goroutine running handleConn on it
     errsBefore |-> 0,       \* errors that had occurred when it was accepted
     herr    |-> NoErr]

\* the method set of the dynamic type of a connection beyond net.Conn: a
\* wrapper embeds an interface, so only that interface's methods are promoted
MethodSet(c) == IF c.wrap = 0 THEN c.raw ELSE {"Peek", "Unwarp"}

\* forwardConnection(c, destConn): splice until either side closes, then
\* close both
forwardConnection(c) == [c EXCEPT !.fwd = TRUE, !.closed = TRUE]

\* the goroutine of the fallback middleware (tls_mux.go 77-98)
FallbackForward(c, dialOk) ==
    LET d == [c EXCEPT !.dialed = IF c.otls THEN "tls" ELSE "tcp"]
    IN  IF ~dialOk THEN [d EXCEPT !.closed = TRUE] ELSE forwardConnection(d)

\* getOriginalAddr(c); sys is what the system calls answer
getOriginalAddr(c, sys) ==
    IF "File" \notin MethodSet(c) THEN "not a TCPConn"
    ELSE IF sys = "ok" THEN NoErr ELSE sys

SysOutcomes == {"ok", "File failed", "getsockopt failed", "unrecognized address family"}

\* the answers getOriginalAddr can get for c: it makes no system call when
\* the type assertion fails
SysChoices(c) == IF "File" \in MethodSet(c) THEN SysOutcomes ELSE {"ok"}

\* the outcomes of the dial of handleConn for c: it dials only when
\* getOriginalAddr succeeded
DialChoices(c, sys) == IF getOriginalAddr(c, sys) = NoErr THEN BOOLEAN ELSE {TRUE}

\* handleConn(logger, c) up to its return
handleConn(c, sys, dialOk) ==
    LET err == getOriginalAddr(c, sys)
    IN  IF err # NoErr THEN [c EXCEPT !.herr = err]
        ELSE IF ~dialOk
             THEN [c EXCEPT !.dialed = "tcp", !.closed = TRUE, !.herr = "dial failed"]
             ELSE forwardConnection([c EXCEPT !.dialed = "tcp"])

----------------------------------------------------------------------------
(* HTTPTransport: the HAR log and the headers of a response *)

\* a HarEntry, its *HarRequest (hasRequest: not nil) with its *HarPostData
\* (hasPost) and its *HarResponse (hasResponse) with its HarContent laid
\* out in one record; req is the request the entry was made for.  The
\* fields no statement of the program sets are left out.  The zero value
\* is what make([]HarEntry, n) fills an array with; started is the text
\* of the zero time.Time in the format of HarTime
ZeroEntry == [req |-> 0, started |-> "0001-01-01T00:00:00Z", time |-> 0,
              send |-> 0, receive |-> 0, serverIp |-> "",
              hasRequest |-> FALSE, method |-> "", url |-> "",
              reqVersion |-> "", reqHeaders |-> <<>>, reqBodySize |-> 0,
              reqHeadersSize |-> 0,
              hasPost |-> FALSE, postMime |-> "", post |-> <<>>,
              hasResponse |-> FALSE, status |-> 0, statusText |-> "",
              respVersion |-> "", headers |-> <<>>, respBodySize |-> 0,
              headersSize |-> 0, mimeType |-> "", text |-> <<>>]

\* make([]HarEntry, n): a new backing array
MakeEntries(n) == [i \in 1..n |-> ZeroEntry]

\* a slice of HarEntry is a reference to a backing array on the heap and a
\* length; its capacity is the length of the array
makeNewEntries == [heap |-> <<MakeEntries(startingEntrySize)>>,
                   s |-> [a |-> 1, len |-> 0]]

newHarLog == [heap |-> makeNewEntries.heap, Entries |-> makeNewEntries.s]

\* the entries of a slice
EntriesOf(heap, s) == SubSeq(heap[s.a], 1, s.len)

\* a reallocation that would not copy the entries over
GrowEntriesFresh(old, len, n) ==
    IF n > Len(old) THEN MakeEntries((n + 1) * 2) ELSE old

\* addEntry lines 72-77: the backing array the entries go to, a new one of
\* (n+1)*2 elements holding the len old entries when n exceeds the capacity
GrowEntries(old, len, n) ==
    IF n > Len(old)
    THEN [i \in 1..((n + 1) * 2) |-> IF i <= len THEN old[i] ELSE ZeroEntry]
    ELSE old

\* addEntry line 79: copy(entries[m:n], entry)
CopyEntries(arr, m, entry) ==
    [i \in 1..Len(arr) |->
        IF i > m /\ i <= m + Len(entry) THEN entry[i - m] ELSE arr[i]]

\* the file at harFile: absent until the first WriteFile opens it
NoFile == [written |-> FALSE, data |-> <<>>]

NewHTTPTransport(harFile) ==
    [harFile |-> harFile,
     heap    |-> newHarLog.heap,
     Entries |-> newHarLog.Entries,
     file    |-> NoFile,
     calls   |-> <<>>]

\* textproto.CanonicalMIMEHeaderKey on the spellings in use: an upper-case
\* letter starts the key and follows each hyphen, the rest is lower-case
CanonicalMIMEHeaderKey(k) ==
    CASE k = "Webkit-CSP" -> "Webkit-Csp"
      [] k = "webkit-csp" -> "Webkit-Csp"
      [] k = "X-Webkit-CSP" -> "X-Webkit-Csp"
      [] k = "x-webkit-csp" -> "X-Webkit-Csp"
      [] k = "content-security-policy" -> "Content-Security-Policy"
      [] k = "x-content-security-policy" -> "X-Content-Security-Policy"
      [] OTHER -> k

\* the keys an http.Header holds here; a key with no values is absent
HeaderKeys == {"Content-Security-Policy", "X-Content-Security-Policy",
               "Webkit-Csp", "X-Webkit-Csp", "X-Request-Error",
               "Content-Encoding", "Content-Type", "Accept-Encoding"}

EmptyHeader == [k \in HeaderKeys |-> <<>>]

HeaderAdd(h, k, v) == [h EXCEPT ![CanonicalMIMEHeaderKey(k)] = Append(@, v)]

HeaderDel(h, k) == [h EXCEPT ![CanonicalMIMEHeaderKey(k)] = <<>>]

HeaderSet(h, k, v) == [h EXCEPT ![CanonicalMIMEHeaderKey(k)] = <<v>>]

HeaderValues(h, k) == h[CanonicalMIMEHeaderKey(k)]

\* Header.Get: the first value of the key, or the empty string
HeaderGet(h, k) == IF HeaderValues(h, k) = <<>> THEN "" ELSE HeaderValues(h, k)[1]

\* the header of a response as the transport reads it off the wire
RECURSIVE ReadHeader(_)
ReadHeader(wire) ==
    IF wire = <<>> THEN EmptyHeader
    ELSE LET last == wire[Len(wire)]
         IN  HeaderAdd(ReadHeader(SubSeq(wire, 1, Len(wire) - 1)), last[1], last[2])

StatusBadGateway == 502

NoResp == [StatusCode |-> 0, Status |-> "", Proto |-> "", ContentLength |-> 0,
           Header |-> EmptyHeader, Body |-> <<>>]

\* create502Response with the status of an internal error
create500Response(req, err) ==
    [StatusCode |-> 500, Status |-> "", Proto |-> "", ContentLength |-> 0,
     Header     |-> [EmptyHeader EXCEPT !["X-Request-Error"] = <<err>>],
     Body       |-> <<>>]

\* create502Response(req, err), lines 34-50
create502Response(req, err) ==
    [StatusCode |-> StatusBadGateway, Status |-> "", Proto |-> "",
     ContentLength |-> 0,
     Header     |-> [EmptyHeader EXCEPT !["X-Request-Error"] = <<err>>],
     Body       |-> <<>>]

contentSecurityPolicy == "default-src * blob: data: 'unsafe-inline' 'unsafe-eval';"

\* the names RoundTrip deletes and adds, in its order
CSPNames == <<"Webkit-CSP", "Content-Security-Policy",
              "X-Webkit-CSP", "X-Content-Security-Policy">>

RECURSIVE DelAll(_, _)
DelAll(h, names) ==
    IF names = <<>> THEN h ELSE DelAll(HeaderDel(h, Head(names)), Tail(names))

RECURSIVE AddAll(_, _, _)
AddAll(h, names, v) ==
    IF names = <<>> THEN h ELSE AddAll(HeaderAdd(h, Head(names), v), Tail(names), v)

\* RoundTrip lines 111-117 alone: the policy added, nothing deleted
AddCSPOnly(resp) ==
    [resp EXCEPT !.Header = AddAll(@, CSPNames, contentSecurityPolicy)]

\* RoundTrip lines 105-117
RewriteCSP(resp) ==
    [resp EXCEPT !.Header = AddAll(DelAll(@, CSPNames), CSPNames, contentSecurityPolicy)]

----------------------------------------------------------------------------
(* HAR capture of the bodies (parsePostData, parseResponse)                *)

\* strings.ToLower on the spellings in use
ToLower(s) ==
    CASE s = "GZIP" -> "gzip"
      [] s = "Deflate" -> "deflate"
      [] OTHER -> s

\* the DEFLATE stream of a short text: one final stored block, that is the
\* block header (BFINAL = 1, BTYPE = 00), LEN and its complement (one byte
\* each here, two in RFC 1951) and the bytes of the text
Deflate(text) == <<1, Len(text), 255 - Len(text)>> \o text

\* the first bytes of a gzip member (ID1, ID2; the other eight bytes of the
\* header are left out)
gzipID == <<31, 139>>

\* the gzip member of a text: header, DEFLATE stream, and the trailer
\* (ISIZE in one byte here; four, after a CRC-32, in RFC 1952)
Gzip(text) == gzipID \o Deflate(text) \o <<Len(text) % 256>>

\* flate.NewReader(s) read to its end: the bytes of s it needed, the text
\* it produced and the error it ended with
Inflate(s) ==
    IF Len(s) < 3
    THEN [used |-> Len(s), text |-> <<>>, err |-> "unexpected EOF"]
    ELSE IF s[1] # 1 \/ s[3] # 255 - s[2]
    THEN [used |-> 3, text |-> <<>>, err |-> "flate: corrupt input"]
    ELSE IF Len(s) < 3 + s[2]
    THEN [used |-> Len(s), text |-> SubSeq(s, 4, Len(s)), err |-> "unexpected EOF"]
    ELSE [used |-> 3 + s[2], text |-> SubSeq(s, 4, 3 + s[2]), err |-> NoErr]

\* the error of gzip.NewReader(s), which reads the header of the first
\* member
GzipHeaderErr(s) ==
    IF s = <<>> THEN "EOF"
    ELSE IF Len(s) < Len(gzipID) THEN "unexpected EOF"
    ELSE IF SubSeq(s, 1, Len(gzipID)) # gzipID THEN "gzip: invalid header"
    ELSE NoErr

\* a gzip reader on s read to its end, once the header of the first member
\* was accepted: after a member it looks for the next one until s ends
RECURSIVE Gunzip(_)
Gunzip(s) ==
    LET d == Inflate(SubSeq(s, Len(gzipID) + 1, Len(s)))
        t == Len(gzipID) + d.used
    IN  IF d.err # NoErr THEN [used |-> t, text |-> d.text, err |-> d.err]
        ELSE IF Len(s) < t + 1
        THEN [used |-> Len(s), text |-> d.text, err |-> "unexpected EOF"]
        ELSE IF s[t + 1] # Len(d.text) % 256
        THEN [used |-> t + 1, text |-> d.text, err |-> "gzip: invalid checksum"]
        ELSE IF Len(s) = t + 1
        THEN [used |-> Len(s), text |-> d.text, err |-> NoErr]
        ELSE LET rest == SubSeq(s, t + 2, Len(s))
             IN  IF GzipHeaderErr(rest) # NoErr
                 THEN [used |-> t + 1 + Min(Len(rest), Len(gzipID)),
                       text |-> d.text, err |-> GzipHeaderErr(rest)]
                 ELSE LET g == Gunzip(rest)
                      IN  [used |-> t + 1 + g.used, text |-> d.text \o g.text,
                           err |-> g.err]

\* parseResponse lines 267-284: the reader chosen by Content-Encoding,
\* whether making it panics, and what decodeBody.ReadFrom gets from it
Decode(enc, s) ==
    CASE enc = "gzip" ->
           IF GzipHeaderErr(s) # NoErr
           THEN [panic |-> TRUE, used |-> Min(Len(s), Len(gzipID)), text |-> <<>>]
           ELSE [panic |-> FALSE, used |-> Gunzip(s).used, text |-> Gunzip(s).text]
      [] enc = "deflate" ->
           [panic |-> FALSE, used |-> Inflate(s).used, text |-> Inflate(s).text]
      [] OTHER ->
           [panic |-> FALSE, used |-> Len(s), text |-> s]

\* the body parseResponse leaves (lines 284-287): the bytes read from the
\* upstream's body, which the TeeReader copied as they were read
TeeBody(wire, consumed, text) == SubSeq(wire, 1, consumed)

\* resp.Status for a status code, as the upstream's server writes it
StatusOf(code) ==
    CASE code = 200 -> "200 OK"
      [] code = 404 -> "404 Not Found"
      [] OTHER -> ""

\* the order in which the keys of a header are listed below; Go ranges over
\* the map in an order of its own, which changes neither the pairs nor the
\* length of the text made of them
HeaderOrder == <<"Accept-Encoding", "Content-Encoding", "Content-Security-Policy",
                 "Content-Type", "Webkit-Csp", "X-Content-Security-Policy",
                 "X-Request-Error", "X-Webkit-Csp">>

\* strings.Join(v, ",")
RECURSIVE Join(_)
Join(v) ==
    IF v = <<>> THEN ""
    ELSE IF Len(v) = 1 THEN v[1]
    ELSE v[1] \o "," \o Join(Tail(v))

\* parseStringArrMap(header): a name-value pair for each key of the map,
\* the values joined by commas (no name or value here holds an escape for
\* url.QueryUnescape to undo)
parseStringArrMap(h) ==
    LET keys == SelectSeq(HeaderOrder, LAMBDA k : h[k] # <<>>)
    IN  [i \in 1..Len(keys) |-> [Name |-> keys[i], Value |-> Join(h[keys[i]])]]

\* calcHeaderSize(header)
calcHeaderSize(h) ==
    LET RECURSIVE Sum(_)
        Sum(ks) == IF ks = <<>> THEN 0
                   ELSE (IF h[Head(ks)] = <<>> THEN 0
                         ELSE Len(Head(ks)) + 2 + Len(Join(h[Head(ks)]))
                                - (Len(h[Head(ks)]) - 1))
                        + Sum(Tail(ks))
    IN  Sum(HeaderOrder)

\* parseResponse(resp): the *HarResponse it returns and the body it leaves
\* in resp; the decoders read the body through a buffer, which had taken
\* `ahead` bytes more than they needed when they stopped.  A panic is
\* recovered (lines 254-258): the result is nil and resp.Body stays the
\* upstream's body, short of the bytes already read
parseResponse(resp, ahead) ==
    LET d == Decode(ToLower(HeaderGet(resp.Header, "Content-Encoding")), resp.Body)
        consumed == Min(Len(resp.Body), d.used + ahead)
    IN  IF d.panic
        THEN [hasResponse |-> FALSE, Status |-> 0, StatusText |-> "",
              HttpVersion |-> "", Headers |-> <<>>, BodySize |-> 0,
              HeadersSize |-> 0, MimeType |-> "", Text |-> <<>>,
              Body |-> SubSeq(resp.Body, consumed + 1, Len(resp.Body))]
        ELSE [hasResponse |-> TRUE, Status |-> resp.StatusCode,
              StatusText |-> resp.Status,
              HttpVersion |-> resp.Proto,
              Headers |-> parseStringArrMap(resp.Header),
              BodySize |-> resp.ContentLength,
              HeadersSize |-> calcHeaderSize(resp.Header),
              MimeType |-> HeaderGet(resp.Header, "Content-Type"),
              Text |-> d.text,
              Body |-> TeeBody(resp.Body, consumed, d.text)]

\* parsePostData(req): the *HarPostData it returns and the body it leaves
\* in req (req.PostForm is empty: nothing has parsed the form).  A panic
\* while the body is read (req.panics, after req.before bytes) is
\* recovered (lines 173-177): the result is nil and req.Body stays the
\* caller's body, short of the bytes already read
parsePostData(req) ==
    IF req.panics
    THEN [hasPost |-> FALSE, MimeType |-> "", Text |-> <<>>,
          Body |-> SubSeq(req.Body, req.before + 1, Len(req.Body))]
    ELSE [hasPost |-> TRUE, MimeType |-> HeaderGet(req.Header, "Content-Type"),
          Text |-> req.Body, Body |-> req.Body]

\* req.URL.String() for a URL of a scheme, a host and a path
URLString(u) == u.Scheme \o "://" \o u.Host \o u.Path

\* parseRequest(req): the *HarRequest it returns and the body it leaves in
\* req; the post data is captured for POST and PUT
parseRequest(req) ==
    LET captured == req.Method \in {"POST", "PUT"}
        pd == parsePostData(req)
    IN  [id |-> req.id, Method |-> req.Method, Url |-> URLString(req.URL),
         HttpVersion |-> req.Proto,
         Headers |-> parseStringArrMap(req.Header),
         BodySize |-> req.ContentLength,
         HeadersSize |-> calcHeaderSize(req.Header),
         hasPost |-> captured /\ pd.hasPost,
         postMime |-> IF captured THEN pd.MimeType ELSE "",
         post |-> IF captured THEN pd.Text ELSE <<>>,
         Body |-> IF captured THEN pd.Body ELSE req.Body]

\* fillIpAddress(req, harEntry), for a URL whose host is an IPv4 address
\* with no port: net.LookupIP answers with the address itself, whose text
\* (ip.String()) is the host
fillIpAddress(req) == req.URL.Host

----------------------------------------------------------------------------
(* The text of the HAR file (json.Marshal of m.Har, ioutil.WriteFile)      *)

\* the second the clock of the model is in (UTC)
ClockSecond == "2024-05-06T07:08:09"

\* HarTime.MarshalJSON without the quotes (lines 94-103), for the time
\* `ms` milliseconds into ClockSecond: the layout .999 writes the
\* milliseconds without their trailing zeros, and nothing for none
HarTimeText(ms) ==
    LET DigitStr(d) == <<"0", "1", "2", "3", "4", "5", "6", "7", "8", "9">>[d + 1]
        d1 == ms \div 100
        d2 == (ms \div 10) % 10
        d3 == ms % 10
        frac == IF ms = 0 THEN ""
                ELSE IF d3 # 0 THEN "." \o DigitStr(d1) \o DigitStr(d2) \o DigitStr(d3)
                ELSE IF d2 # 0 THEN "." \o DigitStr(d1) \o DigitStr(d2)
                ELSE "." \o DigitStr(d1)
    IN  ClockSecond \o frac \o "Z"

\* the length of the decimal text of an integer, which is also the text
\* json.Marshal writes for a float64 holding a whole number of milliseconds
RECURSIVE Digits(_)
Digits(n) ==
    IF n < 0 THEN Len("-") + Digits(0 - n)
    ELSE IF n < 10 THEN 1
    ELSE 1 + Digits(n \div 10)

\* the length in bytes of json.Marshal of a HarEntry, by the json tags of
\* HarEntry, HarCache, HarRequest, HarPostData, HarResponse, HarContent,
\* HarNameValuePair and HarTimings: the fixed text of each object and the
\* text of each of its fields.  A nil pointer is written null, a field
\* tagged omitempty is left out when it is zero, an empty slice that is
\* not nil is written [].  The strings and the bodies here hold nothing
\* json.Marshal escapes, so each of their bytes is written as one byte
JsonLen(e) ==
    LET RECURSIVE List(_)
        List(ps) ==
            IF ps = <<>> THEN 0
            ELSE Len("{\"name\":\"\",\"value\":\"\"}")
                   + Len(Head(ps).Name) + Len(Head(ps).Value)
                   + (IF Len(ps) > 1 THEN Len(",") ELSE 0) + List(Tail(ps))
        Pairs(ps) == Len("[]") + List(ps)
        postData ==
            IF ~e.hasPost THEN Len("null")
            ELSE Len("{\"mimeType\":\"\",\"params\":[],\"text\":\"\"}")
                   + Len(e.postMime) + Len(e.post)
        request ==
            IF ~e.hasRequest THEN Len("null")
            ELSE Len("{\"method\":\"\",\"url\":\"\",\"httpVersion\":\"\",\"cookies\":[],")
                   + Len("\"headers\":,\"queryString\":[],\"postData\":,")
                   + Len("\"bodySize\":,\"headersSize\":}")
                   + Len(e.method) + Len(e.url) + Len(e.reqVersion)
                   + Pairs(e.reqHeaders) + postData
                   + Digits(e.reqBodySize) + Digits(e.reqHeadersSize)
        content ==
            Len("{\"size\":,\"compression\":0,\"mimeType\":\"\",\"text\":\"\",")
              + Len("\"encoding\":\"\"}")
              + Digits(Len(e.text)) + Len(e.mimeType) + Len(e.text)
        response ==
            IF ~e.hasResponse THEN Len("null")
            ELSE Len("{\"status\":,\"statusText\":\"\",\"httpVersion\":\"\",\"cookies\":[],")
                   + Len("\"headers\":,\"content\":,\"redirectURL\":\"\",")
                   + Len("\"bodySize\":,\"headersSize\":}")
                   + Digits(e.status) + Len(e.statusText) + Len(e.respVersion)
                   + Pairs(e.headers) + content
                   + Digits(e.respBodySize) + Digits(e.headersSize)
    IN  Len("{\"cache\":{},\"serverIPAddress\":\"\",\"pageRef\":\"\",\"startedDateTime\":\"\",")
          + Len("\"time\":,\"request\":,\"response\":,")
          + Len("\"timings\":{\"send\":,\"wait\":0,\"receive\":},")
          + Len("\"serverIpAddress\":\"\",\"connection\":\"\"}")
          + Len(e.started) + Digits(e.time) + request + response
          + Digits(e.send) + Digits(e.receive) + Len(e.serverIp)

\* json.Marshal(m.Har): the text of the log, held as the entries it was
\* made of and its length in bytes
MarshalLog(entries) ==
    LET RECURSIVE Sum(_)
        Sum(es) == IF es = <<>> THEN 0
                   ELSE JsonLen(Head(es)) + (IF Len(es) > 1 THEN Len(",") ELSE 0)
                          + Sum(Tail(es))
    IN  [log |-> entries,
         len |-> Len("{\"log\":{\"version\":\"1.2\",\"creator\":{\"name\":\"GoHarProxy\",")
                   + Len("\"version\":\"0.1\"},\"pages\":[],\"entries\":[]}}")
                   + Sum(entries)]

\* no text
NoStr == [log |-> <<>>, len |-> 0]

\* the content of a file is held as a sequence of pieces, each the bytes
\* from..to of a text: the file one Write of str leaves of an empty file
FileOf(str) == <<[log |-> str.log, from |-> 1, to |-> str.len]>>

\* a Write of str at the start of a file holding data: the bytes of data
\* after the first str.len stay
WriteOver(data, str) ==
    LET rest == SelectSeq(data, LAMBDA piece : piece.to > str.len)
    IN  FileOf(str)
        \o [i \in 1..Len(rest) |->
              IF rest[i].from > str.len THEN rest[i]
              ELSE [rest[i] EXCEPT !.from = str.len + 1]]

----------------------------------------------------------------------------
(* The other components at rest *)

HarIdle == NewHTTPTransport("")

\* a connection of the chain: the socket and the wrappers around it
NilConn == [id |-> 0, layers |-> <<>>]

\* a listener of NewListener with no option, nothing accepted yet
ChainIdle == [enable |-> FALSE, n |-> 0, pc |-> "accept", events |-> 0,
              cur |-> NilConn, i |-> 0, acc |-> <<>>, inv |-> <<>>, ret |-> <<>>]

Goroutines == {"http", "https", "signal"}

\* a server not yet made: New has not run
StIdle == [pc |-> "new", cfg |-> <<>>, getX509Certificate |-> "nil",
           intercepting |-> FALSE, opts |-> <<>>,
           via |-> "none", ret |-> NoErr,
           run |-> {}, produced |-> <<>>]

ExtIdle == har = HarIdle /\ chain = ChainIdle /\ st = StIdle

----------------------------------------------------------------------------
(* Initial state: New has returned, nothing has connected *)

MuxInit ==
    /\ conns = <<>>
    /\ backlog = <<>>
    /\ loop = [pc |-> "accept", c |-> 0, mw |-> 0, si |-> 0,
               data |-> Make(DataLen, DataLen), err |-> NoErr]
    /\ chans = [nonTLSConns |-> <<>>, tlsConns |-> <<>>,
                nonTLSErrs |-> <<>>, tlsErrs |-> <<>>]
    /\ got = [l \in Listeners |-> <<>>]
    /\ once = [done |-> [i \in 1..2 |-> FALSE], closeLog |-> <<>>]
    /\ lis = [closed |-> FALSE, closeCalls |-> 0, tempErrs |-> 0]

PkIdle == [p |-> NewPeekConn([buf |-> <<>>, eof |-> TRUE]), orig |-> <<>>,
           pulled |-> 0, delivered |-> <<>>, calls |-> 0, reads |-> 0,
           last |-> [op |-> "none", size |-> 0, len |-> 0, n |-> 0,
                     err |-> NoErr, b |-> <<>>, had |-> 0],
           prev |-> [op |-> "none", size |-> 0, len |-> 0, n |-> 0,
                     err |-> NoErr, b |-> <<>>, had |-> 0]]

Init == MuxInit /\ pk = PkIdle /\ ExtIdle

----------------------------------------------------------------------------
(* Clients *)

\* a client connects and sends its first bytes
ClientConnect(a) ==
    /\ Len(conns) < MaxConns
    /\ ~lis.closed
    /\ conns' = Append(conns, RawConn(a))
    /\ backlog' = Append(backlog, Len(conns) + 1)
    /\ UNCHANGED <<loop, chans, got, once, lis, pk, extVars>>

----------------------------------------------------------------------------
(* listener.Accept (mux_listener.go) as called by the accept goroutine of  *)
(* New (tls_mux.go 105-122)                                                *)

ConnChan(name) == IF name = "tls" THEN "tlsConns" ELSE "nonTLSConns"

\* the errors so far: failed handleConn calls and failed accepts
ErrorsSoFar ==
    Cardinality({i \in 1..Len(conns) : conns[i].herr # NoErr}) + lis.tempErrs

\* m.Listener.Accept() returns a connection, which is wrapped in a peekConn
AcceptConn ==
    /\ loop.pc = "accept"
    /\ ~lis.closed
    /\ backlog # <<>>
    /\ LET id == Head(backlog)
       IN  /\ conns' = [conns EXCEPT ![id].wrap = 1,
                                     ![id].p = NewPeekConn(conns[id].p.Conn),
                                     ![id].errsBefore = ErrorsSoFar]
           /\ loop' = [loop EXCEPT !.pc = "middle", !.c = id, !.mw = 1, !.si = 1,
                                   !.data = Make(DataLen, DataLen)]
    /\ backlog' = Tail(backlog)
    /\ UNCHANGED <<chans, got, once, lis, pk, extVars>>

\* m.Listener.Accept() returns an error: the listener is closed, or the
\* error is a transient one
AcceptError ==
    /\ loop.pc = "accept"
    /\ \/ /\ lis.closed
          /\ loop' = [loop EXCEPT !.pc = "errNonTLS", !.err = "closed"]
          /\ UNCHANGED lis
       \/ /\ ~lis.closed
          /\ lis.tempErrs < MaxTempErrs
          /\ loop' = [loop EXCEPT !.pc = "errNonTLS", !.err = "temporary"]
          /\ lis' = [lis EXCEPT !.tempErrs = @ + 1]
    /\ UNCHANGED <<conns, backlog, chans, got, once, pk, extVars>>

\* the state of the accept goroutine once a middleware returned conn, nil for
\* connection id: the next middleware runs, or Accept returns the connection
\* and the goroutine starts handleConn on it
Returned(id) ==
    IF loop.mw < NumMiddles
    THEN [loop EXCEPT !.mw = @ + 1, !.si = 1, !.data = Make(DataLen, DataLen)]
    ELSE [loop EXCEPT !.pc = "accept", !.c = 0, !.mw = 0, !.si = 0]

\* the state of the accept goroutine once a middleware returned nil, nil
Taken == [loop EXCEPT !.pc = "accept", !.c = 0, !.mw = 0, !.si = 0]

\* one iteration of the loop over peekSizes in the middleware of
\* WithPatternMiddleware, with timeout = 0
PatternMiddleware ==
    /\ loop.pc = "middle"
    /\ loop.mw \in {1, 2}
    /\ LET id    == loop.c
           c     == conns[id]
           sizes == PeekSizes(loop.mw)
           size  == sizes[loop.si]
           data  == IF Cap(loop.data) < size THEN Make(size, size) ELSE loop.data
           b     == Slice(data, 0, size)
       IN  /\ PeekEnabled(c.p, b)
           /\ \E k \in PeekChoices(c.p, b) :
                LET r     == Peek(c.p, b, k)
                    data2 == [data EXCEPT !.arr = r.b.arr]
                    c2    == [c EXCEPT !.p = r.p, !.wrap = 2]
                IN  IF r.n < size
                    THEN /\ conns' = [conns EXCEPT ![id] = c2]
                         /\ loop' = Returned(id)
                         /\ UNCHANGED chans
                    ELSE IF PatternMatch(loop.mw, Contents(data2))
                    THEN LET ch == ConnChan(MiddleChan(loop.mw))
                         IN  /\ Len(chans[ch]) < ChanCap
                             /\ chans' = [chans EXCEPT ![ch] = Append(@, id)]
                             /\ conns' = [conns EXCEPT ![id] =
                                            [c2 EXCEPT !.sent = Append(@, MiddleChan(loop.mw))]]
                             /\ loop' = Taken
                    ELSE /\ conns' = [conns EXCEPT ![id] = c2]
                         /\ UNCHANGED chans
                         /\ loop' = IF loop.si < Len(sizes)
                                    THEN [loop EXCEPT !.si = @ + 1, !.data = data2]
                                    ELSE Returned(id)
    /\ UNCHANGED <<backlog, got, once, lis, pk, extVars>>

\* the third middleware of New (tls_mux.go 67-101); it is the last one, so
\* the connection it returns is what Accept returns, and the accept
\* goroutine starts handleConn on it
FallbackMiddleware ==
    /\ loop.pc = "middle"
    /\ loop.mw = 3
    /\ LET id == loop.c
           c  == conns[id]
       IN  IF "OriginalDestination" \notin MethodSet(c)
           THEN /\ conns' = [conns EXCEPT ![id].h = "run"]
                /\ loop' = Returned(id)
           ELSE /\ \E dialOk \in BOOLEAN :
                     conns' = [conns EXCEPT ![id] = FallbackForward(c, dialOk)]
                /\ loop' = Taken
    /\ UNCHANGED <<backlog, chans, got, once, lis, pk, extVars>>

\* nonTLSErrs <- err in the accept goroutine
LoopSendNonTLSErr ==
    /\ loop.pc = "errNonTLS"
    /\ Len(chans.nonTLSErrs) < ChanCap
    /\ chans' = [chans EXCEPT !.nonTLSErrs = Append(@, loop.err)]
    /\ loop' = [loop EXCEPT !.pc = "errTLS"]
    /\ UNCHANGED <<conns, backlog, got, once, lis, pk, extVars>>

\* tlsErrs <- err in the accept goroutine, then continue
LoopSendTLSErr ==
    /\ loop.pc = "errTLS"
    /\ Len(chans.tlsErrs) < ChanCap
    /\ chans' = [chans EXCEPT !.tlsErrs = Append(@, loop.err)]
    /\ loop' = [loop EXCEPT !.pc = "accept", !.err = NoErr]
    /\ UNCHANGED <<conns, backlog, got, once, lis, pk, extVars>>

----------------------------------------------------------------------------
(* The goroutine the accept goroutine starts per connection (114-119) *)

HandleConn(id) ==
    /\ id \in 1..Len(conns)
    /\ conns[id].h = "run"
    /\ \E sys \in SysChoices(conns[id]) : \E dialOk \in DialChoices(conns[id], sys) :
         LET c2 == handleConn(conns[id], sys, dialOk)
         IN  conns' = [conns EXCEPT ![id] =
                         [c2 EXCEPT !.h = IF c2.herr # NoErr THEN "errNonTLS" ELSE "done"]]
    /\ UNCHANGED <<backlog, loop, chans, got, once, lis, pk, extVars>>

HandlerSendNonTLSErr(id) ==
    /\ id \in 1..Len(conns)
    /\ conns[id].h = "errNonTLS"
    /\ Len(chans.nonTLSErrs) < ChanCap
    /\ chans' = [chans EXCEPT !.nonTLSErrs = Append(@, conns[id].herr)]
    /\ conns' = [conns EXCEPT ![id].h = "errTLS"]
    /\ UNCHANGED <<backlog, loop, got, once, lis, pk, extVars>>

HandlerSendTLSErr(id) ==
    /\ id \in 1..Len(conns)
    /\ conns[id].h = "errTLS"
    /\ Len(chans.tlsErrs) < ChanCap
    /\ chans' = [chans EXCEPT !.tlsErrs = Append(@, conns[id].herr)]
    /\ conns' = [conns EXCEPT ![id].h = "done"]
    /\ UNCHANGED <<backlog, loop, got, once, lis, pk, extVars>>

----------------------------------------------------------------------------
(* tlsMuxListener (tls_mux.go 27-49) *)

\* the errs field of the two tlsMuxListener values New builds: the composite
\* literals of lines 125-129 and 137-141 leave it unset
ListenerErrs(l) == "nil"

\* what the select of Accept on listener l can do now
SelectReady(l) ==
    (IF chans[ConnChan(l)] # <<>> THEN {"conn"} ELSE {}) \cup
    (IF ListenerErrs(l) # "nil" /\ chans[ListenerErrs(l)] # <<>> THEN {"err"} ELSE {})

\* Accept on listener l, which the server on l is always calling: the select
\* receives from a channel that is ready, and otherwise stays blocked
Accept(l) ==
    /\ IF SelectReady(l) = {}
       THEN UNCHANGED <<got, chans>>
       ELSE \E w \in SelectReady(l) :
              LET ch == IF w = "conn" THEN ConnChan(l) ELSE ListenerErrs(l)
              IN  /\ got' = [got EXCEPT ![l] =
                               Append(@, [kind |-> w, val |-> Head(chans[ch])])]
                  /\ chans' = [chans EXCEPT ![ch] = Tail(@)]
    /\ UNCHANGED <<conns, backlog, loop, once, lis, pk, extVars>>

\* the function Close passes to Do: err = c.Listener.Close()
ListenerClose(u) == [u EXCEPT !.closed = TRUE, !.closeCalls = @ + 1]

\* a New that builds one sync.Once per listener
CloserOfSeparate(l) == IF l = "plain" THEN 1 ELSE 2

\* the sync.Once the close field of listener l points to: New builds one
\* closer and gives it to both listeners
CloserOf(l) == 1

\* c.close.Do(f) on once o: f runs unless o is done, and o is done afterwards
OnceDo(o, u) ==
    [done |-> TRUE, lis |-> IF o THEN u ELSE ListenerClose(u)]

\* Close on listener l; closeLog records the call and whether it invoked
\* Close on the underlying listener
Close(l) ==
    /\ Len(once.closeLog) < MaxCloseCalls
    /\ LET r == OnceDo(once.done[CloserOf(l)], lis)
       IN  /\ once' = [once EXCEPT
                         !.done[CloserOf(l)] = r.done,
                         !.closeLog = Append(@, [l |-> l,
                                                 ran |-> r.lis.closeCalls # lis.closeCalls])]
           /\ lis' = r.lis
    /\ UNCHANGED <<conns, backlog, loop, chans, got, pk, extVars>>

----------------------------------------------------------------------------
(* The mux *)

Next ==
    \/ \E a \in Arrivals : ClientConnect(a)
    \/ AcceptConn
    \/ AcceptError
    \/ PatternMiddleware
    \/ FallbackMiddleware
    \/ LoopSendNonTLSErr
    \/ LoopSendTLSErr
    \/ \E id \in 1..MaxConns : HandleConn(id)
    \/ \E id \in 1..MaxConns : HandlerSendNonTLSErr(id)
    \/ \E id \in 1..MaxConns : HandlerSendTLSErr(id)
    \/ \E l \in Listeners : Accept(l)
    \/ \E l \in Listeners : Close(l)

Spec == Init /\ [][Next]_vars

\* the goroutines run when they can: the accept goroutine, the handleConn
\* goroutines and the servers calling Accept; clients and Close calls are
\* up to the environment
AcceptLoop ==
    \/ AcceptConn
    \/ AcceptError
    \/ PatternMiddleware
    \/ FallbackMiddleware
    \/ LoopSendNonTLSErr
    \/ LoopSendTLSErr

Handler(id) == HandleConn(id) \/ HandlerSendNonTLSErr(id) \/ HandlerSendTLSErr(id)

Fairness ==
    /\ WF_vars(AcceptLoop)
    /\ \A id \in 1..MaxConns : WF_vars(Handler(id))
    /\ \A l \in Listeners : WF_vars(Accept(l))

FairSpec == Spec /\ Fairness

\* the listeners alone: Close and Accept calls while no client connects
CloseNext ==
    \/ AcceptError
    \/ LoopSendNonTLSErr
    \/ LoopSendTLSErr
    \/ \E l \in Listeners : Accept(l)
    \/ \E l \in Listeners : Close(l)

CloseSpec == Init /\ [][CloseNext]_vars

FairCloseSpec == CloseSpec /\ Fairness

----------------------------------------------------------------------------
(* PeekSpec: Peek and Read calls on one peekConn *)

PkStreams == {<<11, 12, 13, 14, 15, 16>>, <<11, 12>>}

\* the buffers a caller passes to Peek: make([]byte, n), or data[:n] of a
\* buffer of DataLen bytes as the pattern middleware does
PkBufs == {Make(n, n) : n \in 1..MaxBuf} \cup
          {Slice(Make(DataLen, DataLen), 0, n) : n \in 1..MaxBuf}

PkInit ==
    /\ MuxInit
    /\ ExtIdle
    /\ \E s \in PkStreams, e \in BOOLEAN :
         pk = [PkIdle EXCEPT !.p = NewPeekConn([buf |-> s, eof |-> e]), !.orig = s]

PkPeek(b) ==
    /\ pk.calls < MaxCalls
    /\ pk.reads = 0
    /\ PeekEnabled(pk.p, b)
    /\ \E k \in PeekChoices(pk.p, b) :
         LET r == Peek(pk.p, b, k)
         IN  pk' = [pk EXCEPT !.p = r.p,
                              !.calls = @ + 1,
                              !.prev = pk.last,
                              !.pulled = Len(pk.orig) - Len(r.p.Conn.buf),
                              !.last = [op |-> "peek", size |-> Cap(b), len |-> b.len,
                                        n |-> r.n, err |-> r.err,
                                        b |-> Contents(r.b),
                                        had |-> Len(pk.orig) - Len(r.p.Conn.buf)]]
    /\ UNCHANGED <<muxVars, extVars>>

PkRead(l) ==
    /\ pk.calls < MaxCalls
    /\ ReadEnabled(pk.p, l)
    /\ \E k \in ReadChoicesOf(pk.p, l) :
         LET r == Read(pk.p, l, k)
         IN  pk' = [pk EXCEPT !.p = r.p,
                              !.calls = @ + 1,
                              !.prev = pk.last,
                              !.reads = @ + 1,
                              !.pulled = Len(pk.orig) - Len(r.p.Conn.buf),
                              !.delivered = @ \o r.out,
                              !.last = [op |-> "read", size |-> l, len |-> l,
                                        n |-> r.n, err |-> r.err, b |-> r.out,
                                        had |-> Len(pk.orig) - Len(r.p.Conn.buf)]]
    /\ UNCHANGED <<muxVars, extVars>>

PkNext ==
    \/ \E b \in PkBufs : PkPeek(b)
    \/ \E l \in 1..MaxBuf : PkRead(l)

PeekSpec == PkInit /\ [][PkNext]_vars

----------------------------------------------------------------------------
(* HarSpec: RoundTrip calls on one HTTPTransport, each on its own          *)
(* goroutine (http_transport.go 71-120, HarLog.addEntry)                   *)

HarFiles == {"", "capture.har"}

\* what the embedded http.Transport answers: an error, or a response with
\* the status and the header lines the upstream sent (no Content-Length:
\* the body is chunked), `after` milliseconds after the call
UpstreamErrs == {"connection refused", "i/o timeout"}

\* the text the upstream answers with ("hi") and a body that is no gzip
\* member ("no"), as long as the header a gzip reader reads first
Hi == <<104, 105>>
NotGzip == <<110, 111>>

\* text is what the upstream encoded into the body, where it did
UpstreamResponses ==
    {[err |-> NoErr, status |-> 200, after |-> 0,
      headers |-> << <<"Content-Type", "text/plain">> >>,
      text |-> Hi, body |-> Hi],
     [err |-> NoErr, status |-> 200, after |-> 12,
      headers |-> << <<"Content-Security-Policy", "default-src 'self'">>,
                     <<"Content-Encoding", "GZIP">> >>,
      text |-> Hi, body |-> Gzip(Hi)],
     [err |-> NoErr, status |-> 404, after |-> 3,
      headers |-> << <<"content-security-policy", "default-src 'self'">>,
                     <<"Content-Security-Policy", "script-src 'none'">>,
                     <<"X-Content-Security-Policy", "default-src 'self'">>,
                     <<"webkit-csp", "default-src 'none'">>,
                     <<"X-Webkit-CSP", "default-src 'none'">>,
                     <<"Content-Encoding", "deflate">> >>,
      text |-> Hi, body |-> Deflate(Hi)],
     [err |-> NoErr, status |-> 200, after |-> 0,
      headers |-> << <<"Content-Encoding", "gzip">> >>,
      text |-> NotGzip, body |-> NotGzip]}

UpstreamOutcomes ==
    UpstreamResponses \cup
    {[err |-> e, status |-> 0, after |-> 0, headers |-> <<>>,
      text |-> <<>>, body |-> <<>>] : e \in UpstreamErrs}

\* how many bytes more than the decoder needed its buffer can have taken
\* from the body of an answer: up to one short of the buffer's size, and
\* no more than the body has left
ReadAheads(out) ==
    LET enc == ToLower(HeaderGet(ReadHeader(out.headers), "Content-Encoding"))
    IN  0..Min(BufSize - 1, Len(out.body) - Decode(enc, out.body).used)

NoOutcome == [err |-> NoErr, status |-> 0, after |-> 0, headers |-> <<>>,
              text |-> <<>>, body |-> <<>>]

\* the requests the reverse proxy passes: a GET, and a POST ("x=1") whose
\* body panics in its second Read
PostBody == <<120, 61, 49>>

Requests ==
    {[Method |-> "GET",
      URL |-> [Scheme |-> "http", Host |-> "10.0.0.1", Path |-> "/"],
      Proto |-> "HTTP/1.1", headers |-> <<>>,
      ContentLength |-> 0, Body |-> <<>>, panics |-> FALSE, before |-> 0],
     [Method |-> "POST",
      URL |-> [Scheme |-> "http", Host |-> "10.0.0.1", Path |-> "/"],
      Proto |-> "HTTP/1.1",
      headers |-> << <<"Content-Type", "text/plain">> >>,
      ContentLength |-> Len(PostBody), Body |-> PostBody,
      panics |-> TRUE, before |-> 1]}

\* what time.Now() returns when call r of RoundTrip starts, in
\* milliseconds into ClockSecond: the calls are made a quarter of a second
\* apart, the first on the second
TimeNow(r) ==
    LET readings == <<0, 250, 500, 750>>
    IN  readings[((r - 1) % Len(readings)) + 1]

\* the answers enumerated for a request: every one for a GET, the plain
\* 200 for a POST
OutcomesFor(req) ==
    IF req.Method = "GET" THEN UpstreamOutcomes
    ELSE {o \in UpstreamResponses :
            o.status = 200 /\ HeaderGet(ReadHeader(o.headers), "Content-Encoding") = ""}

NoEntries == [a |-> 0, len |-> 0]

\* RoundTrip lines 72-79, called with request q: the call and its locals
NewCall(r, q) ==
    LET req == [id |-> r, Method |-> q.Method, URL |-> q.URL, Proto |-> q.Proto,
                Header |-> HeaderSet(ReadHeader(q.headers),
                                     "Accept-Encoding", "gzip, deflate"),
                ContentLength |-> q.ContentLength, Body |-> q.Body,
                panics |-> q.panics, before |-> q.before]
        hreq == parseRequest(req)
    IN  [pc |-> "transport",
         req |-> [req EXCEPT !.Body = hreq.Body],
         harEntry |-> [ZeroEntry EXCEPT !.req = hreq.id,
                                        !.started = HarTimeText(TimeNow(r)),
                                        !.hasRequest = TRUE,
                                        !.method = hreq.Method,
                                        !.url = hreq.Url,
                                        !.reqVersion = hreq.HttpVersion,
                                        !.reqHeaders = hreq.Headers,
                                        !.reqBodySize = hreq.BodySize,
                                        !.reqHeadersSize = hreq.HeadersSize,
                                        !.hasPost = hreq.hasPost,
                                        !.postMime = hreq.postMime,
                                        !.post = hreq.post],
         up |-> NoOutcome, resp |-> NoResp, err |-> NoErr,
         entries |-> NoEntries, m |-> 0, n |-> 0, str |-> NoStr]

HarInit ==
    /\ MuxInit
    /\ pk = PkIdle
    /\ chain = ChainIdle
    /\ st = StIdle
    /\ \E f \in HarFiles : har = NewHTTPTransport(f)

\* the reverse proxy calls RoundTrip
RoundTripCall(q) ==
    /\ Len(har.calls) < MaxReqs
    /\ har' = [har EXCEPT !.calls = Append(@, NewCall(Len(@) + 1, q))]
    /\ UNCHANGED <<muxVars, pk, chain, st>>

\* lines 105-119 on the call c, which touch only its response: the rewrite
\* of the policy headers and the return
RoundTripReturn(c) == [c EXCEPT !.resp = RewriteCSP(@), !.pc = "done"]

\* lines 81-99: the upstream round trip; on an error the 502 is returned,
\* and without a HAR file the call goes on to its return.  The answer
\* comes out.after milliseconds after the call, and parseResponse takes
\* less than one
TransportRoundTrip(r, out, ahead) ==
    /\ r \in 1..Len(har.calls)
    /\ har.calls[r].pc = "transport"
    /\ out \in OutcomesFor(har.calls[r].req)
    /\ LET c == har.calls[r]
       IN  IF out.err # NoErr
           THEN har' = [har EXCEPT !.calls[r] =
                          [c EXCEPT !.pc = "done", !.up = out,
                                    !.resp = create502Response(c.req, out.err),
                                    !.err = NoErr]]
           ELSE LET resp == [StatusCode |-> out.status,
                             Status |-> StatusOf(out.status),
                             Proto |-> "HTTP/1.1",
                             ContentLength |-> -1,
                             Header |-> ReadHeader(out.headers),
                             Body |-> out.body]
                    hresp == parseResponse(resp, ahead)
                    c2 == [c EXCEPT !.pc = "addEntry",
                                    !.up = out,
                                    !.resp = [resp EXCEPT !.Body = hresp.Body],
                                    !.harEntry =
                                       [@ EXCEPT !.send = out.after,
                                                 !.hasResponse = hresp.hasResponse,
                                                 !.status = hresp.Status,
                                                 !.statusText = hresp.StatusText,
                                                 !.respVersion = hresp.HttpVersion,
                                                 !.headers = hresp.Headers,
                                                 !.respBodySize = hresp.BodySize,
                                                 !.headersSize = hresp.HeadersSize,
                                                 !.mimeType = hresp.MimeType,
                                                 !.text = hresp.Text,
                                                 !.receive = 0,
                                                 !.time = out.after,
                                                 !.serverIp =
                                                    IF har.harFile # ""
                                                    THEN fillIpAddress(c.req)
                                                    ELSE @]]
                IN  har' = [har EXCEPT !.calls[r] =
                              IF har.harFile # "" THEN c2 ELSE RoundTripReturn(c2)]
    /\ UNCHANGED <<muxVars, pk, chain, st>>

\* addEntry lines 69-71
AddEntryRead(r) ==
    /\ r \in 1..Len(har.calls)
    /\ har.calls[r].pc = "addEntry"
    /\ har' = [har EXCEPT !.calls[r].entries = har.Entries,
                          !.calls[r].m = har.Entries.len,
                          !.calls[r].n = har.Entries.len + 1,
                          !.calls[r].pc = "copy"]
    /\ UNCHANGED <<muxVars, pk, chain, st>>

\* addEntry lines 72-79
AddEntryCopy(r) ==
    /\ r \in 1..Len(har.calls)
    /\ har.calls[r].pc = "copy"
    /\ LET c == har.calls[r]
           old == har.heap[c.entries.a]
           grow == c.n > Len(old)
           newEntries == GrowEntries(old, c.entries.len, c.n)
           heap1 == IF grow THEN Append(har.heap, newEntries) ELSE har.heap
           a == IF grow THEN Len(heap1) ELSE c.entries.a
       IN  har' = [har EXCEPT !.heap = [heap1 EXCEPT
                                          ![a] = CopyEntries(@, c.m, <<c.harEntry>>)],
                              !.calls[r].entries = [a |-> a, len |-> c.n],
                              !.calls[r].pc = "store"]
    /\ UNCHANGED <<muxVars, pk, chain, st>>

\* addEntry lines 80-81: the slice is stored; the Request of the entry is
\* not nil (line 78), and line 81 logs its Url
AddEntryStore(r) ==
    /\ r \in 1..Len(har.calls)
    /\ har.calls[r].pc = "store"
    /\ har' = [har EXCEPT !.Entries = har.calls[r].entries,
                          !.calls[r].entries = NoEntries,
                          !.calls[r].m = 0,
                          !.calls[r].n = 0,
                          !.calls[r].pc = "marshal"]
    /\ UNCHANGED <<muxVars, pk, chain, st>>

\* line 101
Marshal(r) ==
    /\ r \in 1..Len(har.calls)
    /\ har.calls[r].pc = "marshal"
    /\ har' = [har EXCEPT !.calls[r].str = MarshalLog(EntriesOf(har.heap, har.Entries)),
                          !.calls[r].pc = "write"]
    /\ UNCHANGED <<muxVars, pk, chain, st>>

\* line 102, ioutil.WriteFile: the file is opened with O_CREATE and
\* O_TRUNC, which empties it
WriteFileOpen(r) ==
    /\ r \in 1..Len(har.calls)
    /\ har.calls[r].pc = "write"
    /\ har' = [har EXCEPT !.file = [written |-> TRUE, data |-> <<>>],
                          !.calls[r].pc = "writing"]
    /\ UNCHANGED <<muxVars, pk, chain, st>>

\* line 102, ioutil.WriteFile: str is written from the start of the file,
\* over what another call has written there since the file was opened;
\* the call then goes on to its return
WriteFileWrite(r) ==
    /\ r \in 1..Len(har.calls)
    /\ har.calls[r].pc = "writing"
    /\ LET str == har.calls[r].str
       IN  har' = [har EXCEPT
                     !.file.data = WriteOver(@, str),
                     !.calls[r] = RoundTripReturn([@ EXCEPT !.str = NoStr])]
    /\ UNCHANGED <<muxVars, pk, chain, st>>

HarNext ==
    \/ \E q \in Requests : RoundTripCall(q)
    \/ \E r \in 1..MaxReqs, out \in UpstreamOutcomes :
         \E ahead \in ReadAheads(out) : TransportRoundTrip(r, out, ahead)
    \/ \E r \in 1..MaxReqs : AddEntryRead(r)
    \/ \E r \in 1..MaxReqs : AddEntryCopy(r)
    \/ \E r \in 1..MaxReqs : AddEntryStore(r)
    \/ \E r \in 1..MaxReqs : Marshal(r)
    \/ \E r \in 1..MaxReqs : WriteFileOpen(r)
    \/ \E r \in 1..MaxReqs : WriteFileWrite(r)

HarSpec == HarInit /\ [][HarNext]_vars

----------------------------------------------------------------------------
(* LogSpec: addEntry calls on one HarLog, one after the other (the HAR     *)
(* log, lines 68-82)                                                       *)

\* the entries passed: what RoundTrip holds in *harEntry at line 99 for
\* call r with a GET the upstream answers with its plain 200: the request
\* of line 78, which is never nil, the response of line 91, the times and
\* the address
LogEntries ==
    {LET q == CHOOSE q \in Requests : q.Method = "GET"
         c == NewCall(r, q)
         out == CHOOSE o \in UpstreamResponses :
                  /\ o.status = 200
                  /\ HeaderGet(ReadHeader(o.headers), "Content-Encoding") = ""
         hresp == parseResponse([StatusCode |-> out.status,
                                 Status |-> StatusOf(out.status),
                                 Proto |-> "HTTP/1.1",
                                 ContentLength |-> -1,
                                 Header |-> ReadHeader(out.headers),
                                 Body |-> out.body], 0)
     IN  [c.harEntry EXCEPT !.send = out.after,
                            !.hasResponse = hresp.hasResponse,
                            !.status = hresp.Status,
                            !.statusText = hresp.StatusText,
                            !.respVersion = hresp.HttpVersion,
                            !.headers = hresp.Headers,
                            !.respBodySize = hresp.BodySize,
                            !.headersSize = hresp.HeadersSize,
                            !.mimeType = hresp.MimeType,
                            !.text = hresp.Text,
                            !.receive = 0,
                            !.time = out.after,
                            !.serverIp = fillIpAddress(c.req)] : r \in 1..2}

\* the arguments of a call, entry ...HarEntry; line 81 reads entry[0], so
\* a call passes at least one
EntryArgs == UNION {[1..k -> LogEntries] : k \in 1..MaxK}

LogInit ==
    /\ MuxInit
    /\ pk = PkIdle
    /\ chain = ChainIdle
    /\ st = StIdle
    /\ har = NewHTTPTransport("")

\* harLog.addEntry(entry...), lines 69-81; har.calls keeps, for each call,
\* the entries of the log before it, its arguments, whether it
\* reallocated and whether it panicked.  Line 81 reads
\* entry[0].Request.Url after line 80 has stored the slice: with a nil
\* Request the call panics there, on a log it has already changed, and the
\* goroutine that uses the log makes no call after it
AddEntry(entry) ==
    /\ Len(har.calls) < MaxAdds
    /\ \A i \in 1..Len(har.calls) : ~har.calls[i].panicked
    /\ LET entries == har.Entries
           m == entries.len
           n == m + Len(entry)
           old == har.heap[entries.a]
           grow == n > Len(old)
           heap1 == IF grow THEN Append(har.heap, GrowEntries(old, m, n))
                    ELSE har.heap
           a == IF grow THEN Len(heap1) ELSE entries.a
       IN  har' = [har EXCEPT
                     !.heap = [heap1 EXCEPT ![a] = CopyEntries(@, m, entry)],
                     !.Entries = [a |-> a, len |-> n],
                     !.calls = Append(@, [before |-> EntriesOf(har.heap, entries),
                                          entry |-> entry,
                                          realloc |-> grow,
                                          panicked |-> ~entry[1].hasRequest])]
    /\ UNCHANGED <<muxVars, pk, chain, st>>

LogNext == \E entry \in EntryArgs : AddEntry(entry)

LogSpec == LogInit /\ [][LogNext]_vars

----------------------------------------------------------------------------
(* ChainSpec: Accept calls on a listener of NewListener built with any     *)
(* middleware (mux_listener.go)                                            *)

\* what a middleware returns for the connection it is given: that
\* connection, a wrapper of it, nil, or an error
MiddleResults == {"same", "wrap", "nil", "err"}

\* a wrapper around connection c
WrapConn(c, by) == [c EXCEPT !.layers = Append(@, by)]

\* NewListener(listen, opts...): with or without WithPeekConn, with n
\* middleware
ChInit ==
    /\ MuxInit
    /\ pk = PkIdle
    /\ har = HarIdle
    /\ st = StIdle
    /\ \E e \in BOOLEAN, n \in 0..MaxMiddles :
         chain = [ChainIdle EXCEPT !.enable = e, !.n = n]

\* lines 37, 42-44: the underlying Accept returns a connection
ChAcceptConn ==
    /\ chain.pc = "accept"
    /\ chain.events < MaxEvents
    /\ LET raw == [id |-> chain.events + 1, layers |-> <<>>]
           conn == IF chain.enable THEN WrapConn(raw, "peekConn") ELSE raw
       IN  chain' = [chain EXCEPT !.events = @ + 1,
                                  !.acc = Append(@, conn),
                                  !.cur = conn,
                                  !.i = 1,
                                  !.pc = IF chain.n = 0 THEN "finish" ELSE "middle"]
    /\ UNCHANGED <<muxVars, pk, har, st>>

\* lines 37-40: the underlying Accept returns an error, and so does Accept;
\* the caller calls Accept again
ChAcceptErr ==
    /\ chain.pc = "accept"
    /\ chain.events < MaxEvents
    /\ chain' = [chain EXCEPT !.events = @ + 1,
                              !.acc = Append(@, NilConn),
                              !.ret = Append(@, [ev |-> chain.events + 1,
                                                 conn |-> NilConn,
                                                 err |-> "accept failed"])]
    /\ UNCHANGED <<muxVars, pk, har, st>>

\* line 53, if the test were never true
SkipNever(conn) == FALSE

\* lines 53 and 59: `conn == nil`
Skip(conn) == conn = NilConn

\* lines 46-56: one iteration of the loop over m.middles
ChMiddle(res) ==
    /\ chain.pc = "middle"
    /\ LET out == CASE res = "same" -> chain.cur
                    [] res = "wrap" -> WrapConn(chain.cur, chain.i)
                    [] OTHER -> NilConn
           call == [sock |-> chain.events, mw |-> chain.i, arg |-> chain.cur,
                    res |-> out, err |-> res = "err"]
       IN  IF res = "err"
           THEN chain' = [chain EXCEPT !.inv = Append(@, call),
                                       !.ret = Append(@, [ev |-> chain.events,
                                                          conn |-> NilConn,
                                                          err |-> "middleware failed"]),
                                       !.cur = NilConn,
                                       !.i = 0,
                                       !.pc = "accept"]
           ELSE IF Skip(out) \/ chain.i = chain.n
           THEN chain' = [chain EXCEPT !.inv = Append(@, call),
                                       !.cur = out,
                                       !.i = 0,
                                       !.pc = "finish"]
           ELSE chain' = [chain EXCEPT !.inv = Append(@, call),
                                       !.cur = out,
                                       !.i = @ + 1]
    /\ UNCHANGED <<muxVars, pk, har, st>>

\* lines 58-63: skip the connection and accept the next, or return it; the
\* caller calls Accept again
ChFinish ==
    /\ chain.pc = "finish"
    /\ IF Skip(chain.cur)
       THEN chain' = [chain EXCEPT !.pc = "accept"]
       ELSE chain' = [chain EXCEPT !.ret = Append(@, [ev |-> chain.events,
                                                      conn |-> chain.cur,
                                                      err |-> NoErr]),
                                   !.cur = NilConn,
                                   !.pc = "accept"]
    /\ UNCHANGED <<muxVars, pk, har, st>>

ChNext ==
    \/ ChAcceptConn
    \/ ChAcceptErr
    \/ \E res \in MiddleResults : ChMiddle(res)
    \/ ChFinish

ChainSpec == ChInit /\ [][ChNext]_vars

----------------------------------------------------------------------------
(* StartSpec: New and Start of the server (proxy.go)                       *)

\* the configuration of a server and what its environment answers
Configs ==
    [fLogLevel : {"", "debug", "bogus"},   \* the package's log level setting
     certFile : {"", "ca.pem"},
     keyFile : {"", "ca.key"},
     detect : BOOLEAN,             \* detectcert.Detect finds CA material
     loadOk : BOOLEAN,             \* tls.LoadX509KeyPair succeeds
     listenOk : BOOLEAN,           \* net.Listen succeeds
     tlsSecretsFile : {"", "keys.log", "/no/such/dir/keys.log"},
     enableSystemProxy : BOOLEAN,
     enableOk : BOOLEAN]           \* proxy_settings.EnableProxy succeeds

\* neither a cert/key pair is supplied nor CA material is detected
NoCA(cfg) == cfg.certFile = "" /\ cfg.keyFile = "" /\ ~cfg.detect

\* logrus.ParseLevel on the level names in use: the error it returns
ParseLevel(lvl) ==
    IF lvl \in {"panic", "fatal", "error", "warn", "warning", "info", "debug", "trace"}
    THEN NoErr
    ELSE "not a valid logrus Level"

\* New lines 75-111: the log level, the certificate paths and the
\* certificate getter
New(cfg) ==
    LET detected == cfg.certFile = "" /\ cfg.keyFile = "" /\ cfg.detect
        certFile == IF detected THEN "detected.pem" ELSE cfg.certFile
        keyFile == IF detected THEN "detected.key" ELSE cfg.keyFile
        static == certFile # "" /\ keyFile # ""
    IN  IF cfg.fLogLevel # "" /\ ParseLevel(cfg.fLogLevel) # NoErr
        THEN [err |-> ParseLevel(cfg.fLogLevel), getX509Certificate |-> "nil"]
        ELSE IF static /\ ~cfg.loadOk
        THEN [err |-> "tls: failed to load key pair", getX509Certificate |-> "nil"]
        ELSE [err |-> NoErr,
              getX509Certificate |-> IF static THEN "static" ELSE "mint"]

\* Start lines 121-125
Intercepting(getX509Certificate) == getX509Certificate # "nil"

\* the options tlsmux.New builds its listener with (tls_mux.go 57-102)
NewOpts(getCert) ==
    <<"WithPeekConn", "WithTLSMiddleware", "WithHTTPMiddleware", "WithMiddleware">>

\* what a goroutine of Start can send on errChan
ServeErrs == {"http: Server closed", "accept: use of closed network connection"}
DisableResults == {NoErr, "failed to disable system proxy"}

StInit ==
    /\ MuxInit
    /\ pk = PkIdle
    /\ har = HarIdle
    /\ chain = ChainIdle
    /\ st = StIdle

\* New(configurators...)
StNew(cfg) ==
    /\ st.pc = "new"
    /\ LET s == New(cfg)
       IN  st' = [st EXCEPT !.cfg = cfg,
                            !.getX509Certificate = s.getX509Certificate,
                            !.pc = IF s.err # NoErr THEN "failed" ELSE "start",
                            !.ret = s.err]
    /\ UNCHANGED <<muxVars, pk, har, chain>>

\* Start lines 115-172: up to the receive from errChan
StartSetup ==
    /\ st.pc = "start"
    /\ LET cfg == st.cfg
           early(e) == [st EXCEPT !.pc = "returned", !.via = "early", !.ret = e]
           logged == Intercepting(st.getX509Certificate)
       IN  IF ~cfg.listenOk
           THEN st' = early("failed to listen on interface")
           ELSE IF cfg.tlsSecretsFile = "/no/such/dir/keys.log"
           THEN st' = [early("failed opening secrets file") EXCEPT
                          !.intercepting = logged]
           ELSE IF cfg.enableSystemProxy /\ ~cfg.enableOk
           THEN st' = [early("failed to enable system proxy") EXCEPT
                          !.intercepting = logged,
                          !.opts = NewOpts(st.getX509Certificate)]
           ELSE st' = [st EXCEPT !.pc = "recv",
                                 !.intercepting = logged,
                                 !.opts = NewOpts(st.getX509Certificate),
                                 !.run = {"http", "https"} \cup
                                         IF cfg.enableSystemProxy THEN {"signal"}
                                         ELSE {}]
    /\ UNCHANGED <<muxVars, pk, har, chain>>

\* the value a receive takes from the goroutines blocked in a send, in the
\* order they arrived: the last of them
ReceivedLast(q) == q[Len(q)]

\* the value a receive takes from the goroutines blocked in a send, in the
\* order they arrived: the first of them
Received(q) == q[1]

\* Start line 174: the receive; it blocks when no goroutine is sending
StartRecv ==
    /\ st.pc = "recv"
    /\ IF st.produced # <<>>
       THEN st' = [st EXCEPT !.pc = "returned", !.via = "errChan",
                             !.ret = Received(st.produced).val]
       ELSE st' = [st EXCEPT !.pc = "waiting"]
    /\ UNCHANGED <<muxVars, pk, har, chain>>

\* goroutine g executes `errChan <- v`: it hands v to Start if Start is
\* blocked in the receive, else it blocks
Send(g, v) ==
    /\ g \in st.run
    /\ \A i \in 1..Len(st.produced) : st.produced[i].g # g
    /\ IF st.pc = "waiting"
       THEN st' = [st EXCEPT !.produced = Append(@, [g |-> g, val |-> v]),
                             !.pc = "returned", !.via = "errChan", !.ret = v]
       ELSE st' = [st EXCEPT !.produced = Append(@, [g |-> g, val |-> v])]
    /\ UNCHANGED <<muxVars, pk, har, chain>>

\* lines 166-172: Serve returns in one of the two goroutines
ServeResult(g, e) == g \in {"http", "https"} /\ Send(g, e)

\* lines 160-163: a signal arrives and disableProxy returns
SignalResult(e) == "signal" \in st.run /\ Send("signal", e)

StNext ==
    \/ \E cfg \in Configs : StNew(cfg)
    \/ StartSetup
    \/ StartRecv
    \/ \E g \in Goroutines, e \in ServeErrs : ServeResult(g, e)
    \/ \E e \in DisableResults : SignalResult(e)

StartSpec == StInit /\ [][StNext]_vars

----------------------------------------------------------------------------
(* Properties *)

IsPrefixOf(a, b) == Len(a) <= Len(b) /\ SubSeq(b, 1, Len(a)) = a

\* connection id came out of the underlying listener's Accept
Accepted(id) == id \in 1..Len(conns) /\ conns[id].wrap >= 1

\* middleware mw has returned for connection id, or an earlier one took it
Classified(id, mw) ==
    Accepted(id) /\ ~(loop.pc = "middle" /\ loop.c = id /\ loop.mw <= mw)

\* the middleware chain and handleConn have returned for connection id
Handled(id) == Classified(id, NumMiddles) /\ conns[id].h # "run"

\* C1 (as claimed): what Read has returned so far, concatenated, is the
\* underlying stream from its first byte: peeked bytes come first, none is
\* lost or repeated.
Cex_C1_StreamIntegrity == IsPrefixOf(pk.delivered, pk.orig)

\* C2 (as claimed): a Peek on a buffer of n bytes, when at least n bytes of
\* the stream have been pulled from the connection, returns at least n and
\* leaves the first n bytes of the stream in the buffer; when fewer have been
\* pulled it returns that smaller count.
Cex_C2_PeekResult ==
    pk.last.op = "peek" =>
        IF pk.last.had >= pk.last.len
        THEN /\ pk.last.n >= pk.last.len
             /\ pk.last.b = SubSeq(pk.orig, 1, pk.last.len)
        ELSE pk.last.n = pk.last.had

\* C3 (as claimed): a connection whose first three bytes are 0x16 0x03
\* 0x00..0x04 has been sent to the TLS channel once the TLS classifier is
\* through with it.
Cex_C3_TLSClassified ==
    \A id \in 1..Len(conns) :
        IsTLS(conns[id].orig) /\ Classified(id, 1) => conns[id].sent = <<"tls">>

\* C4 (as claimed): once the HTTP classifier is through with a connection,
\* the connection has been sent to the plaintext channel if and only if its
\* stream starts with a method token followed by a space.
Cex_C4_HTTPClassified ==
    \A id \in 1..Len(conns) :
        Classified(id, 2) =>
            (("plain" \in {conns[id].sent[i] : i \in 1..Len(conns[id].sent)})
                <=> IsHTTP(conns[id].orig))

\* C5: no connection is sent to both channels, nor twice to one.  It holds in
\* every reachable state, but no reachable state has a connection on a
\* channel at all.
Inv_C5_Disjoint == \A id \in 1..Len(conns) : Len(conns[id].sent) <= 1

\* some connection has been sent to a channel (never reached)
Sent_C5_Some == \E id \in 1..Len(conns) : conns[id].sent # <<>>

\* C6 (as claimed): a connection with a recorded original destination whose
\* first bytes are neither a TLS handshake nor an HTTP method is, once
\* handled, dialled to that destination (with TLS iff the original was TLS)
\* and spliced, and is sent to no listener.
Cex_C6_TransparentFallback ==
    \A id \in 1..Len(conns) :
        /\ "OriginalDestination" \in conns[id].raw
        /\ ~IsTLS(conns[id].orig)
        /\ ~IsHTTP(conns[id].orig)
        /\ Handled(id)
        => /\ conns[id].dialed = (IF conns[id].otls THEN "tls" ELSE "tcp")
           /\ conns[id].sent = <<>>

\* the outcomes of C7
SentOnce(c) == Len(c.sent) = 1
BlindForwarded(c) == c.fwd
ClosedWithError(c) == c.closed /\ ~c.fwd

\* C7 (as claimed): an accepted connection, once the chain and the fallback
\* handling are through with it, is in exactly one of: sent to exactly one
\* channel, blind-forwarded, closed with an error.
Cex_C7_ExhaustiveOutcome ==
    \A id \in 1..Len(conns) :
        Handled(id) =>
            LET c == conns[id]
            IN  Cardinality({o \in {"sent", "forwarded", "closed"} :
                    \/ o = "sent" /\ SentOnce(c)
                    \/ o = "forwarded" /\ BlindForwarded(c)
                    \/ o = "closed" /\ ClosedWithError(c)}) = 1

\* C8: whatever Close calls are made on the two listeners, the first one,
\* and no other, invokes Close on the underlying listener.
Thm_C8_CloseOnce ==
    /\ \A i \in 1..Len(once.closeLog) : once.closeLog[i].ran <=> i = 1
    /\ lis.closeCalls = (IF once.closeLog = <<>> THEN 0 ELSE 1)

\* C8 witness: Close was called on both listeners, more than twice in all
Wit_C8_CloseOnce ==
    /\ Len(once.closeLog) >= 3
    /\ {once.closeLog[i].l : i \in 1..Len(once.closeLog)} = Listeners
    /\ lis.closeCalls = 1

\* C9 (as claimed): once the underlying listener is closed, the Accept call
\* on each listener returns an error.
Cex_C9_CloseTerminatesAccept ==
    \A l \in Listeners :
        lis.closed ~> (\E i \in 1..Len(got[l]) : got[l][i].kind = "err")

\* the accept goroutine of a listener that is still open is blocked for good
\* sending to error channel ch: the channel is full and no listener receives
\* from it
LoopBlockedOn(pc, ch) ==
    /\ ~lis.closed
    /\ loop.pc = pc
    /\ Len(chans[ch]) = ChanCap
    /\ \A l \in Listeners : ListenerErrs(l) # ch

\* C10 (as claimed): a connection accepted after errors on earlier
\* connections or accepts that matches the TLS or HTTP pattern has, once
\* handled, been sent to its listener's channel, and the accept goroutine is
\* not blocked for good on an error channel.
Cex_C10_ErrorIsolation ==
    /\ \A j \in 1..Len(conns) :
          /\ conns[j].errsBefore > 0
          /\ IsTLS(conns[j].orig) \/ IsHTTP(conns[j].orig)
          /\ Handled(j)
          => conns[j].sent = <<IF IsTLS(conns[j].orig) THEN "tls" ELSE "plain">>
    /\ ~LoopBlockedOn("errNonTLS", "nonTLSErrs")
    /\ ~LoopBlockedOn("errTLS", "tlsErrs")

----------------------------------------------------------------------------
(* The recording round-tripper *)

\* RoundTrip call r has returned
RoundTripReturned(r) == r \in 1..Len(har.calls) /\ har.calls[r].pc = "done"

\* the positions of the HAR log holding an entry of the request of call r
EntriesFor(r) ==
    {i \in 1..har.Entries.len : har.heap[har.Entries.a][i].req = har.calls[r].req.id}

\* C11 (as claimed): when RoundTrip has returned for a request, the HAR log
\* holds exactly one entry of that request, whether the upstream answered
\* or the 502 was synthesised, and the entry records the status of the
\* response returned (502 in the latter case).
Cex_C11_HarCompleteness ==
    \A r \in 1..MaxReqs :
        RoundTripReturned(r) =>
            /\ Cardinality(EntriesFor(r)) = 1
            /\ \A i \in EntriesFor(r) :
                 har.heap[har.Entries.a][i].status = har.calls[r].resp.StatusCode

\* C12 (as claimed): with a HAR path configured, once all the concurrent
\* RoundTrip calls have returned with an upstream response, the log holds
\* exactly one entry for each of them.
Cex_C12_HarSerialised ==
    ( /\ har.harFile # ""
      /\ Len(har.calls) = MaxReqs
      /\ \A r \in 1..MaxReqs : RoundTripReturned(r) /\ har.calls[r].up.err = NoErr )
    => /\ har.Entries.len = MaxReqs
       /\ \A r \in 1..MaxReqs : Cardinality(EntriesFor(r)) = 1

\* C13: a RoundTrip call never returns an error, and when the upstream
\* round trip failed it returns a response with status 502 whose
\* X-Request-Error header is the text of that error.
Thm_C13_BadGateway ==
    \A r \in 1..MaxReqs :
        RoundTripReturned(r) =>
            /\ har.calls[r].err = NoErr
            /\ har.calls[r].up.err # NoErr =>
                 /\ har.calls[r].resp.StatusCode = 502
                 /\ HeaderValues(har.calls[r].resp.Header, "X-Request-Error")
                      = <<har.calls[r].up.err>>

\* a call returned after its upstream round trip had failed
Wit_C13_BadGateway ==
    \E r \in 1..MaxReqs : RoundTripReturned(r) /\ har.calls[r].up.err = "i/o timeout"

\* C14: the response RoundTrip returns after a successful upstream round
\* trip has, under each of the four names of the Content-Security-Policy
\* header, exactly one value, the permissive policy, whatever the upstream
\* sent under those names.
Thm_C14_CSPRewrite ==
    \A r \in 1..MaxReqs :
        (RoundTripReturned(r) /\ har.calls[r].up.err = NoErr) =>
            \A i \in 1..Len(CSPNames) :
                HeaderValues(har.calls[r].resp.Header, CSPNames[i])
                    = <<"default-src * blob: data: 'unsafe-inline' 'unsafe-eval';">>

\* a call returned whose upstream had sent several of the names, one of
\* them twice
Wit_C14_CSPRewrite ==
    \E r \in 1..MaxReqs :
        /\ RoundTripReturned(r)
        /\ Len(har.calls[r].up.headers) >= 5
        /\ har.calls[r].resp.StatusCode = 404

----------------------------------------------------------------------------
(* The server *)

\* tlsmux.New has been called by Start
MuxBuilt == st.opts # <<>>

\* C15 (as claimed): when neither a cert/key pair is supplied nor CA
\* material is detected, Start does not intercept TLS, and the mux it
\* builds has no middleware sending TLS connections to the TLS-terminating
\* listener.
Cex_C15_NoCANoInterception ==
    (MuxBuilt /\ NoCA(st.cfg)) =>
        /\ ~st.intercepting
        /\ \A i \in 1..Len(st.opts) : st.opts[i] # "WithTLSMiddleware"

\* C17: once Start has started its goroutines, it stays blocked in the
\* receive while none of them has sent a result, and what it returns is
\* the first result sent, whatever is sent after it.
Thm_C17_FirstResult ==
    /\ st.pc = "waiting" => st.produced = <<>>
    /\ (st.pc = "returned" /\ st.via = "errChan") =>
           /\ st.produced # <<>>
           /\ st.ret = st.produced[1].val

\* Start has returned the first result while a second, different one had
\* been sent
Wit_C17_FirstResult ==
    /\ st.pc = "returned"
    /\ st.via = "errChan"
    /\ Len(st.produced) >= 2
    /\ st.produced[2].val # st.produced[1].val

----------------------------------------------------------------------------
(* The middleware chain *)

\* the middleware calls made for the e-th connection of the underlying
\* listener, in the order they were made
InvOf(e) == SelectSeq(chain.inv, LAMBDA x : x.sock = e)

\* what Accept returned while it was dealing with that connection
RetOf(e) == SelectSeq(chain.ret, LAMBDA x : x.ev = e)

\* Accept has finished with that connection
Finished(e) == e < chain.events \/ (e = chain.events /\ chain.pc = "accept")

\* a middleware took the connection: it returned nil and no error
TakenBy(e) == \E j \in 1..Len(InvOf(e)) : InvOf(e)[j].res = NilConn /\ ~InvOf(e)[j].err

\* every middleware returned a connection
Passed(e) ==
    /\ chain.acc[e] # NilConn
    /\ Len(InvOf(e)) = chain.n
    /\ \A j \in 1..chain.n : InvOf(e)[j].res # NilConn

\* the connection the chain ended with
Final(e) == IF chain.n = 0 THEN chain.acc[e] ELSE InvOf(e)[chain.n].res

\* C16: for each accepted connection the middleware are called in their
\* order, the first with the accepted connection and each next one with
\* what the one before returned; after a middleware returned nil no other
\* is called and Accept returns nothing for that connection; when all of
\* them returned a connection, Accept returns the last one's.
Thm_C16_Chain ==
    \A e \in 1..chain.events :
        /\ \A j \in 1..Len(InvOf(e)) :
             /\ InvOf(e)[j].mw = j
             /\ j <= chain.n
             /\ InvOf(e)[j].arg = IF j = 1 THEN chain.acc[e] ELSE InvOf(e)[j - 1].res
             /\ j > 1 => InvOf(e)[j - 1].res # NilConn
        /\ TakenBy(e) => RetOf(e) = <<>>
        /\ (Finished(e) /\ Passed(e)) =>
               RetOf(e) = <<[ev |-> e, conn |-> Final(e), err |-> NoErr]>>

\* the first connection was taken by the first of two middleware, Accept
\* went on to the second connection, which both middleware passed on, one
\* of them wrapped, and returned it
Wit_C16_Chain ==
    /\ chain.n = 2
    /\ chain.events = 2
    /\ TakenBy(1)
    /\ Len(InvOf(1)) = 1
    /\ Finished(2)
    /\ Passed(2)
    /\ Final(2) # chain.acc[2]
    /\ Len(chain.ret) = 1

----------------------------------------------------------------------------
(* Repeated peeks *)

\* C18 (as claimed): when Peek is called for a bytes and then for b >= a
\* bytes, the second call returns at least as many bytes as the first,
\* and both return, as their first min(a, bytes the connection had
\* delivered by the first call) bytes, the same bytes.
Cex_C18_PeekIdempotence ==
    (pk.prev.op = "peek" /\ pk.last.op = "peek" /\ pk.prev.len <= pk.last.len) =>
        LET m == Min(pk.prev.len, pk.prev.had)
        IN  /\ pk.last.n >= pk.prev.n
            /\ pk.prev.n >= m
            /\ pk.last.n >= m
            /\ SubSeq(pk.prev.b, 1, m) = SubSeq(pk.last.b, 1, m)

----------------------------------------------------------------------------
(* The accept goroutine and the connections it classifies *)

\* the accept goroutine is inside the Peek of a pattern middleware, in a
\* Read of a connection that has nothing to deliver
LoopBlockedInPeek ==
    /\ loop.pc = "middle"
    /\ loop.mw \in {1, 2}
    /\ LET size == PeekSizes(loop.mw)[loop.si]
           data == IF Cap(loop.data) < size THEN Make(size, size) ELSE loop.data
       IN  ~PeekEnabled(conns[loop.c].p, Slice(data, 0, size))

\* C19 (as claimed): while a connection that has sent nothing is being
\* classified, a connection waiting in the underlying listener is not kept
\* from being accepted: the accept goroutine is not blocked in the
\* classification of the silent one.
Cex_C19_NoHeadOfLine ==
    (backlog # <<>> /\ ~lis.closed) => ~LoopBlockedInPeek

\* C20 (as claimed): a connection that starts like neither TLS nor HTTP and
\* has no original destination is, once the middleware chain and what
\* follows it are done with it, on the plaintext path: it was sent to the
\* plaintext listener's channel.
Cex_C20_PlaintextFallback ==
    \A id \in 1..Len(conns) :
        ( /\ conns[id].orig # <<>>
          /\ ~IsTLS(conns[id].orig)
          /\ ~IsHTTP(conns[id].orig)
          /\ "OriginalDestination" \notin conns[id].raw
          /\ Handled(id) )
        => conns[id].sent = <<"plain">>

\* the capture of the request body or of the response of call r panicked
CapturePanicked(r) ==
    \/ har.calls[r].req.Method \in {"POST", "PUT"} /\ ~har.calls[r].harEntry.hasPost
    \/ har.calls[r].up.err = NoErr /\ ~har.calls[r].harEntry.hasResponse

\* C21 (as claimed): when the capture of the request body or of the
\* response panicked, RoundTrip still returns the upstream's response (its
\* status and its whole body) with a nil error, and the HAR log holds one
\* entry of the request, with what was captured before the panic.
Cex_C21_PanicContained ==
    \A r \in 1..MaxReqs :
        (RoundTripReturned(r) /\ har.calls[r].up.err = NoErr /\ CapturePanicked(r)) =>
            /\ har.calls[r].err = NoErr
            /\ har.calls[r].resp.StatusCode = har.calls[r].up.status
            /\ har.calls[r].resp.Body = har.calls[r].up.body
            /\ Cardinality(EntriesFor(r)) = 1
            /\ \A i \in EntriesFor(r) :
                 har.heap[har.Entries.a][i] = har.calls[r].harEntry

\* C22 (as claimed): after the capture of a response with Content-Encoding
\* gzip, deflate or none, the body RoundTrip returns is the upstream's
\* body, byte for byte and still encoded, and the HAR entry of the call
\* records the decoded text.
Cex_C22_WireForm ==
    \A r \in 1..MaxReqs :
        (RoundTripReturned(r) /\ har.calls[r].up.err = NoErr) =>
            /\ har.calls[r].resp.Body = har.calls[r].up.body
            /\ har.calls[r].harEntry.hasResponse
            /\ har.calls[r].harEntry.text = har.calls[r].up.text

\* C24: after a call addEntry(e1..ek) on a log used by one goroutine, the
\* entries of the log are the entries it had before the call, unchanged
\* and in the same order, followed by e1..ek, and its length has grown by
\* k, whether or not the call reallocated; each call starts from the
\* entries the call before it left.
Thm_C24_AppendOnly ==
    /\ har.calls # <<>> =>
         LET c == har.calls[Len(har.calls)]
         IN  /\ EntriesOf(har.heap, har.Entries) = c.before \o c.entry
             /\ har.Entries.len = Len(c.before) + Len(c.entry)
    /\ \A i \in 1..(Len(har.calls) - 1) :
         har.calls[i + 1].before = har.calls[i].before \o har.calls[i].entry

\* a call passing two entries has reallocated a log that held entries,
\* and has returned
Wit_C24_AppendOnly ==
    /\ har.calls # <<>>
    /\ ~har.calls[Len(har.calls)].panicked
    /\ har.calls[Len(har.calls)].realloc
    /\ har.calls[Len(har.calls)].before # <<>>
    /\ Len(har.calls[Len(har.calls)].entry) = 2

\* C23: on each listener, the connections Accept has returned so far,
\* followed by those still in the listener's channel, are in the order in
\* which the accept goroutine sent them (it numbers the connections in the
\* order it takes them up), and none occurs twice.  It holds in every
\* reachable state, but no reachable state has a connection that was sent
\* to a channel or returned by Accept.
Inv_C23_Fifo ==
    \A l \in Listeners :
        LET ret == SelectSeq(got[l], LAMBDA g : g.kind = "conn")
            q == [i \in 1..Len(ret) |-> ret[i].val] \o chans[ConnChan(l)]
        IN  \A i, j \in 1..Len(q) : i < j => q[i] < q[j]

\* Accept has returned a connection (never reached)
Returned_C23_Some ==
    \E l \in Listeners : \E i \in 1..Len(got[l]) : got[l][i].kind = "conn"
============================================================================
